---- MODULE Spec2Model ----
(***************************************************************************)
(* Model of include/BeatDetection.h: SampleQueue<T> (the rolling window),  *)
(* BeatDetectionData<T> and BeatDetection<T>::process.                     *)
(*                                                                         *)
(* The sample type T is modelled by exact rationals <<n, d>> with d > 0 in *)
(* lowest terms, extended with the three IEEE values a floating-point      *)
(* division by zero produces: <<0,0>> (NaN), <<1,0>> (+Inf), <<-1,0>>      *)
(* (-Inf).  Rounding of T is not modelled.                                 *)
(***************************************************************************)
EXTENDS Integers, Sequences, FiniteSets, TLC

\* ---------------------------------------------------------------- bounds
MaxCap     == 3   \* largest capacity of a stand-alone SampleQueue
MaxAdds    == 5   \* addSample calls on the stand-alone SampleQueue
MaxVal     == 2   \* largest sample fed to the stand-alone SampleQueue
MaxFrames  == 3   \* process() calls per detector
MaxMag     == 2   \* largest spectrum magnitude returned by the transform
MaxHistory == 4   \* largest historyCount of a detector
BigHistory == 2   \* historyCount of the large detectors
SmallFrame == 4   \* spectrum length of the small detectors
BigFrame   == 18  \* spectrum length of the large detectors

\* ------------------------------------------------ arithmetic of the type T
Abs(n) == IF n < 0 THEN -n ELSE n
Sign(n) == IF n > 0 THEN 1 ELSE IF n < 0 THEN -1 ELSE 0

RECURSIVE GCD(_, _)
GCD(a, b) == IF b = 0 THEN a ELSE GCD(b, a % b)

Norm(n, d) ==
  IF d = 0 THEN <<Sign(n), 0>>
  ELSE LET g == GCD(Abs(n), d) IN <<(Abs(n) \div g) * Sign(n), d \div g>>

R(n) == <<n, 1>>
NaN  == <<0, 0>>
PInf == <<1, 0>>
IsFinite(a) == a[2] # 0
IsNaN(a) == a = NaN

\* a + b on T
RAdd(a, b) ==
  IF IsFinite(a) /\ IsFinite(b) THEN Norm(a[1] * b[2] + b[1] * a[2], a[2] * b[2])
  ELSE IF IsNaN(a) \/ IsNaN(b) THEN NaN
  ELSE IF IsFinite(a) THEN b
  ELSE IF IsFinite(b) THEN a
  ELSE IF a = b THEN a ELSE NaN

\* a - b on T (finite operands)
RSub(a, b) == Norm(a[1] * b[2] - b[1] * a[2], a[2] * b[2])

\* a * b on T (finite operands)
RMul(a, b) == Norm(a[1] * b[1], a[2] * b[2])

\* a / b on T (finite operands); x/0 is +Inf, -Inf or NaN by the sign of x
RDiv(a, b) ==
  IF b[1] = 0 THEN <<Sign(a[1]), 0>>
  ELSE Norm(a[1] * b[2] * Sign(b[1]), a[2] * Abs(b[1]))

\* std::abs on T (finite operand)
RAbs(a) == <<Abs(a[1]), a[2]>>

\* slip: the comparison is written as "not (a <= b)", true on NaN
RGt_notLessEq(a, b) ==
  IF IsNaN(a) \/ IsNaN(b) THEN TRUE
  ELSE IF IsFinite(a) /\ IsFinite(b) THEN a[1] * b[2] > b[1] * a[2]
  ELSE IF IsFinite(a) THEN b[1] < 0
  ELSE IF IsFinite(b) THEN a[1] > 0
  ELSE a[1] > b[1]

\* a > b on T: every comparison with NaN is false
RGt(a, b) ==
  IF IsNaN(a) \/ IsNaN(b) THEN FALSE
  ELSE IF IsFinite(a) /\ IsFinite(b) THEN a[1] * b[2] > b[1] * a[2]
  ELSE IF IsFinite(a) THEN b[1] < 0
  ELSE IF IsFinite(b) THEN a[1] > 0
  ELSE a[1] > b[1]

\* ------------------------------------------------------------ SampleQueue
\* SampleQueue(maxSize): mVariance is left uninitialised, its value is u
NewQueue(maxSize, u) ==
  [mSamples |-> [i \in 1..maxSize |-> R(0)], mTotalSamples |-> 0,
   mAverage |-> R(0), mTotal |-> R(0), mVariance |-> u, mFull |-> FALSE]

getAverage(s) == s.mAverage
getVariance(s) == s.mVariance

getSampleCount(s) == IF s.mFull THEN Len(s.mSamples) ELSE s.mTotalSamples

\* the loop of addSample: sum of |mSamples[i] - mAverage| for i < n
RECURSIVE SumAbsDelta(_, _, _)
SumAbsDelta(samples, avg, n) ==
  IF n = 0 THEN R(0)
  ELSE RAdd(SumAbsDelta(samples, avg, n - 1), RAbs(RSub(samples[n], avg)))

\* lines 44-46: the slot written, the counter, the full flag
\* slip: the flag is raised one insertion late
Advance_late(s) ==
  [s EXCEPT !.mTotalSamples = @ + 1,
            !.mFull = @ \/ s.mTotalSamples + 1 > Len(s.mSamples)]
Advance(s) ==
  [s EXCEPT !.mTotalSamples = @ + 1,
            !.mFull = @ \/ s.mTotalSamples + 1 >= Len(s.mSamples)]

\* lines 47-49: running total, stored sample, average
\* slip: the evicted sample is not subtracted from the running total
Store_noEvict(s, index, sample) ==
  [s EXCEPT !.mTotal = RAdd(@, sample),
            !.mSamples[index + 1] = sample,
            !.mAverage = RDiv(RAdd(s.mTotal, sample), R(Len(s.mSamples)))]
\* slip: the average is taken from the total before the insertion
Store_staleAvg(s, index, sample) ==
  [s EXCEPT !.mTotal = RAdd(@, RSub(sample, s.mSamples[index + 1])),
            !.mSamples[index + 1] = sample,
            !.mAverage = RDiv(s.mTotal, R(Len(s.mSamples)))]
Store(s, index, sample) ==
  LET total == RAdd(s.mTotal, RSub(sample, s.mSamples[index + 1]))
  IN [s EXCEPT !.mTotal = total,
               !.mSamples[index + 1] = sample,
               !.mAverage = RDiv(total, R(Len(s.mSamples)))]

\* slip: the deviation is divided by the capacity, not the sample count
Rescan_overCapacity(s) ==
  [s EXCEPT !.mVariance =
     RDiv(SumAbsDelta(s.mSamples, s.mAverage, getSampleCount(s)),
          R(Len(s.mSamples)))]

\* lines 50-58: mean absolute deviation over the samples present
Rescan(s) ==
  [s EXCEPT !.mVariance =
     RDiv(SumAbsDelta(s.mSamples, s.mAverage, getSampleCount(s)),
          R(getSampleCount(s)))]

\* slip: the counter is incremented before the slot is taken (++x for x++)
addSample_preIncrement(s, sample) ==
  LET index == (s.mTotalSamples + 1) % Len(s.mSamples)
  IN Rescan(Store(Advance(s), index, sample))

addSample(s, sample) ==
  LET index == s.mTotalSamples % Len(s.mSamples)
  IN Rescan(Store(Advance(s), index, sample))

\* ------------------------------------------------------ BeatDetectionData
LOW  == 0
MID  == 1
HIGH == 2
NUM_TYPES == 3
Classes == 0..(NUM_TYPES - 1)

DEFAULT_LOW_CUTOFF  == 4
DEFAULT_MID_CUTOFF  == 16
DEFAULT_HIGH_CUTOFF == 32
DEFAULT_LOW_THRESHOLD  == 150
DEFAULT_MID_THRESHOLD  == 130
DEFAULT_HIGH_THRESHOLD == 80

\* BeatDetectionData(sampleCountIn, bandCountIn, historyCountIn); u is the
\* value of the uninitialised mVariance of the queues
NewData(sampleCountIn, bandCountIn, historyCountIn, u) ==
  [sampleCount   |-> sampleCountIn,
   bandCount     |-> bandCountIn,
   historyCount  |-> historyCountIn,
   history       |-> [i \in 1..bandCountIn |-> NewQueue(historyCountIn, u)],
   sampleStorage |-> [i \in 1..sampleCountIn |-> R(0)],
   bandStorage   |-> [i \in 1..bandCountIn |-> R(0)],
   energy        |-> [c \in Classes |-> R(0)],
   counter       |-> [c \in Classes |-> 0],
   cutoff        |-> (LOW :> DEFAULT_LOW_CUTOFF @@ MID :> DEFAULT_MID_CUTOFF
                      @@ HIGH :> DEFAULT_HIGH_CUTOFF),
   threshold     |-> (LOW :> DEFAULT_LOW_THRESHOLD @@ MID :> DEFAULT_MID_THRESHOLD
                      @@ HIGH :> DEFAULT_HIGH_THRESHOLD)]

\* ------------------------------------------------- BeatDetection::process
\* slip: the test is > 1, so a counter of 1 is never decremented
DecCounters_aboveOne(counter) ==
  [c \in Classes |-> IF counter[c] > 1 THEN counter[c] - 1 ELSE counter[c]]

\* lines 176-178
DecCounters(counter) ==
  [c \in Classes |-> IF counter[c] > 0 THEN counter[c] - 1 ELSE counter[c]]

\* line 187
GroupIndex(i, samplesPerBand) == i \div samplesPerBand

\* lines 185-189: bins i..n-1 are added to the band storage bs
RECURSIVE Collect(_, _, _, _, _)
Collect(bs, ss, samplesPerBand, i, n) ==
  IF i = n THEN bs
  ELSE Collect([bs EXCEPT ![GroupIndex(i, samplesPerBand) + 1] =
                  RAdd(@, RMul(ss[i + 1], R(10)))],
               ss, samplesPerBand, i + 1, n)

\* line 194
Normalize(raw, samplesPerBand) ==
  [i \in DOMAIN raw |-> RDiv(raw[i], R(samplesPerBand))]

\* line 195
UpdateHistory(history, bs) ==
  [i \in DOMAIN history |-> addSample(history[i], bs[i])]

\* lines 216-218
Trigger(h, e, threshold) ==
  RGt(e, RAdd(RDiv(getVariance(h), getAverage(h)),
              RMul(getAverage(h), RDiv(R(threshold), R(100)))))

\* lines 210-223 without line 214: counts[j] over the bands 1..n
RECURSIVE CountVotes(_, _, _, _)
CountVotes(history, bs, threshold, n) ==
  IF n = 0 THEN 0
  ELSE CountVotes(history, bs, threshold, n - 1)
       + (IF Trigger(history[n], bs[n], threshold) THEN 1 ELSE 0)

\* lines 210-223 without line 214: peaks[j] over the bands 1..n
RECURSIVE PeakSum(_, _)
PeakSum(bs, n) == IF n = 0 THEN R(0) ELSE RAdd(PeakSum(bs, n - 1), bs[n])

\* lines 203-208
InitLocals ==
  [counts |-> [c \in Classes |-> 0],
   peaks  |-> [c \in Classes |-> R(0)],
   means  |-> [c \in Classes |-> R(0)]]

\* slip: peaks[j] is accumulated inside the if, with counts[j]
VoteStep_peaksInsideIf(loc, h, e, threshold, j) ==
  [loc EXCEPT !.means[j]  = RAdd(@, getAverage(h)),
              !.peaks[j]  = IF Trigger(h, e, threshold[j])
                            THEN RAdd(@, e) ELSE @,
              !.counts[j] = IF Trigger(h, e, threshold[j]) THEN @ + 1 ELSE @]

\* slip: the predicate reads the accumulated means[j] as the band average
VoteStep_meansLive(loc, h, e, threshold, j) ==
  [loc EXCEPT !.means[j]  = RAdd(@, getAverage(h)),
              !.peaks[j]  = RAdd(@, e),
              !.counts[j] =
                IF Trigger([h EXCEPT !.mAverage = RAdd(loc.means[j], getAverage(h))],
                           e, threshold[j])
                THEN @ + 1 ELSE @]

\* lines 214-221: the body of the inner loop for one band (history h,
\* energy e) and class j
VoteStep(loc, h, e, threshold, j) ==
  [loc EXCEPT !.means[j]  = RAdd(@, getAverage(h)),
              !.peaks[j]  = RAdd(@, e),
              !.counts[j] = IF Trigger(h, e, threshold[j]) THEN @ + 1 ELSE @]

\* lines 212-222: the inner loop over the classes 0..j-1 for one band
RECURSIVE VoteBand(_, _, _, _, _)
VoteBand(loc, h, e, threshold, j) ==
  IF j = 0 THEN loc
  ELSE VoteStep(VoteBand(loc, h, e, threshold, j - 1), h, e, threshold, j - 1)

\* lines 210-223: the outer loop over the bands 1..i
RECURSIVE VoteLoop(_, _, _, _)
VoteLoop(history, bs, threshold, i) ==
  IF i = 0 THEN InitLocals
  ELSE CHOOSE r \in {VoteBand(loc, history[i], bs[i], threshold, NUM_TYPES) :
                       loc \in {VoteLoop(history, bs, threshold, i - 1)}} : TRUE

\* slip: >= in place of >
FireCond_atLeast(counterJ, countsJ, cutoffJ) ==
  counterJ = 0 /\ countsJ >= cutoffJ \div 2

\* lines 227-229
FireCond(counterJ, countsJ, cutoffJ) ==
  counterJ = 0 /\ countsJ > cutoffJ \div 2

\* slip: the loop runs from HIGH down to LOW
RECURSIVE FireLoop_descending(_, _, _, _, _)
FireLoop_descending(st, j, cnts, pks, cutoff) ==
  IF j = NUM_TYPES THEN st
  ELSE LET c == NUM_TYPES - 1 - j
       IN IF FireCond(st.counter[c], cnts[c], cutoff[c])
          THEN LET en == [st.energy EXCEPT ![c] = pks[c]]
               IN FireLoop_descending(
                    [counter |-> [st.counter EXCEPT ![c] = 1],
                     energy  |-> en,
                     calls   |-> Append(st.calls, <<c, en[c]>>)],
                    j + 1, cnts, pks, cutoff)
          ELSE FireLoop_descending(st, j + 1, cnts, pks, cutoff)

\* slip: line 232 outside the if, so energy is overwritten on every call
RECURSIVE FireLoop_alwaysEnergy(_, _, _, _, _)
FireLoop_alwaysEnergy(st, j, cnts, pks, cutoff) ==
  IF j = NUM_TYPES THEN st
  ELSE LET en == [st.energy EXCEPT ![j] = pks[j]]
       IN IF FireCond(st.counter[j], cnts[j], cutoff[j])
          THEN FireLoop_alwaysEnergy(
                 [counter |-> [st.counter EXCEPT ![j] = 1],
                  energy  |-> en,
                  calls   |-> Append(st.calls, <<j, en[j]>>)],
                 j + 1, cnts, pks, cutoff)
          ELSE FireLoop_alwaysEnergy([st EXCEPT !.energy = en],
                                     j + 1, cnts, pks, cutoff)

\* lines 225-236: the classes j..NUM_TYPES-1; st holds counter, energy, calls
RECURSIVE FireLoop(_, _, _, _, _)
FireLoop(st, j, cnts, pks, cutoff) ==
  IF j = NUM_TYPES THEN st
  ELSE IF FireCond(st.counter[j], cnts[j], cutoff[j])
       THEN LET en == [st.energy EXCEPT ![j] = pks[j]]
            IN FireLoop([counter |-> [st.counter EXCEPT ![j] = 1],
                         energy  |-> en,
                         calls   |-> Append(st.calls, <<j, en[j]>>)],
                        j + 1, cnts, pks, cutoff)
       ELSE FireLoop(st, j + 1, cnts, pks, cutoff)

\* a configuration on which process() divides by zero (line 184, 187 or 44)
\* or writes past the band storage (line 188)
Undefined(d) ==
  IF d.bandCount = 0 THEN TRUE
  ELSE IF d.historyCount = 0 THEN TRUE
  ELSE d.sampleCount % d.bandCount # 0

\* ---------------------------------------------------------------- state
VARIABLES
  q,          \* a stand-alone SampleQueue
  log,        \* the samples added to q, in order
  phase,      \* "new", "ready", "crashed" or "corrupt"
  mData,      \* BeatDetection::mData
  frames,     \* number of process() calls made
  bandRaw,    \* bandStorage after the collection loop (line 189)
  ready,      \* counter after the decrement loop (line 178)
  counts,     \* the local counts[] of the last call
  peaks,      \* the local peaks[] of the last call
  calls,      \* callback invocations of the last call, in order
  silent,     \* every spectrum so far was all zeros
  means,      \* the local means[] of the last call
  trace,      \* the steps of the last call, in the order they ran
  groups,     \* band indices written by the collection loop (line 188)
  plain,      \* a detector whose process() has no line 214: mData, calls
  confined    \* the last spectrum was a spike in band 0: zero outside its
              \* bins, non-zero inside

qvars == <<q, log>>
dvars == <<phase, mData, frames, bandRaw, ready, counts, peaks, calls, silent,
           means, trace, groups, plain, confined>>
vars == <<q, log, phase, mData, frames, bandRaw, ready, counts, peaks, calls,
          silent, means, trace, groups, plain, confined>>

\* values an uninitialised T may hold
Uninit == {R(0), R(7)}
QVals == {R(n) : n \in -1..MaxVal} \cup {<<1, 2>>}

\* magnitudes the transform returns, in spectra with one step at a bin k
\* (k = 1: only the first bin is non-zero)
Mags == {R(n) : n \in 0..MaxMag}
Spectra(n) ==
  {[i \in 1..n |-> IF i <= k THEN a ELSE b] :
     k \in {1, n \div 2, n}, a \in Mags, b \in {R(0)}}

\* the same with magnitudes of either sign (a transform that returns signed
\* components instead of magnitudes)
SignedMags == Mags \cup {R(-1)}
SignedSpectra(n) ==
  {[i \in 1..n |-> IF i <= k THEN a ELSE b] :
     k \in {n \div 2, n}, a \in SignedMags, b \in {R(0)}}

NoQueue == NewQueue(0, R(0))
NoData == NewData(0, 0, 0, R(0))
NoLocals == [c \in Classes |-> 0]
NoPlain == [mData |-> NoData, calls |-> <<>>]

QIdle == q = NoQueue /\ log = <<>>

DIdle ==
  /\ phase = "new" /\ mData = NoData /\ frames = 0
  /\ bandRaw = <<>> /\ ready = NoLocals /\ counts = NoLocals
  /\ peaks = [c \in Classes |-> R(0)] /\ calls = <<>> /\ silent = TRUE
  /\ means = [c \in Classes |-> R(0)] /\ trace = <<>> /\ groups = {}
  /\ confined = FALSE
  /\ plain = NoPlain

InitQ ==
  /\ \E m \in 1..MaxCap, u \in Uninit : q = NewQueue(m, u)
  /\ log = <<>>
  /\ DIdle

AddSample(v) ==
  /\ Len(log) < MaxAdds
  /\ q' = addSample(q, v)
  /\ log' = Append(log, v)
  /\ UNCHANGED dvars

NextQ == \E v \in QVals : AddSample(v)

SpecQ == InitQ /\ [][NextQ]_vars

\* ------------------------------------------------------------- detector
\* configurations with bandCount dividing sampleCount and historyCount >= 1
FrameSizes == {SmallFrame, BigFrame}
\* the small detectors sweep the window lengths, the large ones have one
HistoryCounts(n) == IF n = SmallFrame THEN {1, 2, MaxHistory} ELSE {BigHistory}
BandCounts(n) == {b \in {n, n \div 2} : b >= 1 /\ n % b = 0}

InitDetector ==
  /\ QIdle
  /\ \E n \in FrameSizes : \E b \in BandCounts(n) :
       \E m \in HistoryCounts(n), u \in Uninit : mData = NewData(n, b, m, u)
  /\ phase = "ready" /\ frames = 0
  /\ bandRaw = <<>> /\ ready = NoLocals /\ counts = NoLocals
  /\ peaks = [c \in Classes |-> R(0)] /\ calls = <<>> /\ silent = TRUE
  /\ means = [c \in Classes |-> R(0)] /\ trace = <<>> /\ groups = {}
  /\ confined = FALSE

Init == InitDetector /\ plain = NoPlain

\* both detectors constructed with the same arguments
InitTwin == InitDetector /\ plain = [mData |-> mData, calls |-> <<>>]

\* BeatDetection(fft, spectrumSize, bandSize, historySize): nothing is checked
Construct(n, b, m, u) ==
  /\ phase = "new"
  /\ phase' = "ready"
  /\ mData' = NewData(n, b, m, u)
  /\ UNCHANGED <<q, log, frames, bandRaw, ready, counts, peaks, calls, silent,
                 means, trace, groups, plain, confined>>

\* slip: the votes are taken before the histories are updated
Process_voteBeforeHistory(spectrum) ==
  /\ phase = "ready"
  /\ ~Undefined(mData)
  /\ frames < MaxFrames
  /\ \E counter0 \in {DecCounters(mData.counter)},
        samplesPerBand \in {mData.sampleCount \div mData.bandCount} :
     \E raw \in {Collect(mData.bandStorage, spectrum, samplesPerBand,
                         0, mData.sampleCount)} :
     \E bs \in {Normalize(raw, samplesPerBand)} :
     \E hist \in {UpdateHistory(mData.history, bs)} :
     \E loc \in {VoteLoop(mData.history, bs, mData.threshold,
                          mData.bandCount)} :
     \E cnts \in {loc.counts}, pks \in {loc.peaks} :
     \E st \in {FireLoop([counter |-> counter0, energy |-> mData.energy,
                          calls |-> <<>>], 0, cnts, pks, mData.cutoff)} :
        /\ means' = loc.means
        /\ trace' = <<"decrement", "transform", "collect", "vote", "history">>
                      \o [k \in 1..Len(st.calls) |-> "callback"]
        /\ groups' = {GroupIndex(i, samplesPerBand) :
                        i \in 0..(mData.sampleCount - 1)}
        /\ mData' = [mData EXCEPT !.sampleStorage = spectrum,
                                  !.bandStorage = bs,
                                  !.history = hist,
                                  !.counter = st.counter,
                                  !.energy = st.energy]
        /\ bandRaw' = raw
        /\ ready' = counter0
        /\ counts' = cnts
        /\ peaks' = pks
        /\ calls' = st.calls
  /\ frames' = frames + 1
  /\ silent' = (silent /\ \A i \in DOMAIN spectrum : spectrum[i] = R(0))
  /\ confined' = \E spb \in {mData.sampleCount \div mData.bandCount} :
                    /\ \A i \in DOMAIN spectrum :
                         GroupIndex(i - 1, spb) # 0 => spectrum[i] = R(0)
                    /\ \E i \in DOMAIN spectrum :
                         GroupIndex(i - 1, spb) = 0 /\ spectrum[i] # R(0)
  /\ UNCHANGED <<q, log, phase>>

\* process(samples, callback); spectrum is what mFFT writes to sampleStorage
Process(spectrum) ==
  /\ phase = "ready"
  /\ ~Undefined(mData)
  /\ frames < MaxFrames
  /\ \E counter0 \in {DecCounters(mData.counter)},
        samplesPerBand \in {mData.sampleCount \div mData.bandCount} :
     \E raw \in {Collect(mData.bandStorage, spectrum, samplesPerBand,
                         0, mData.sampleCount)} :
     \E bs \in {Normalize(raw, samplesPerBand)} :
     \E hist \in {UpdateHistory(mData.history, bs)} :
     \E loc \in {VoteLoop(hist, bs, mData.threshold, mData.bandCount)} :
     \E cnts \in {loc.counts}, pks \in {loc.peaks} :
     \E st \in {FireLoop([counter |-> counter0, energy |-> mData.energy,
                          calls |-> <<>>], 0, cnts, pks, mData.cutoff)} :
        /\ means' = loc.means
        /\ trace' = <<"decrement", "transform", "collect", "history", "vote">>
                      \o [k \in 1..Len(st.calls) |-> "callback"]
        /\ groups' = {GroupIndex(i, samplesPerBand) :
                        i \in 0..(mData.sampleCount - 1)}
        /\ mData' = [mData EXCEPT !.sampleStorage = spectrum,
                                  !.bandStorage = bs,
                                  !.history = hist,
                                  !.counter = st.counter,
                                  !.energy = st.energy]
        /\ bandRaw' = raw
        /\ ready' = counter0
        /\ counts' = cnts
        /\ peaks' = pks
        /\ calls' = st.calls
  /\ frames' = frames + 1
  /\ silent' = (silent /\ \A i \in DOMAIN spectrum : spectrum[i] = R(0))
  /\ confined' = \E spb \in {mData.sampleCount \div mData.bandCount} :
                    /\ \A i \in DOMAIN spectrum :
                         GroupIndex(i - 1, spb) # 0 => spectrum[i] = R(0)
                    /\ \E i \in DOMAIN spectrum :
                         GroupIndex(i - 1, spb) = 0 /\ spectrum[i] # R(0)
  /\ UNCHANGED <<q, log, phase>>

\* process() of the detector without line 214, on its own state
PlainProcess(spectrum) ==
  \E d \in {plain.mData} :
  \E counter0 \in {DecCounters(d.counter)},
     samplesPerBand \in {d.sampleCount \div d.bandCount} :
  \E raw \in {Collect(d.bandStorage, spectrum, samplesPerBand,
                      0, d.sampleCount)} :
  \E bs \in {Normalize(raw, samplesPerBand)} :
  \E hist \in {UpdateHistory(d.history, bs)} :
  \E cnts \in {[j \in Classes |->
                  CountVotes(hist, bs, d.threshold[j], d.bandCount)]},
     pks \in {[j \in Classes |-> PeakSum(bs, d.bandCount)]} :
  \E st \in {FireLoop([counter |-> counter0, energy |-> d.energy,
                       calls |-> <<>>], 0, cnts, pks, d.cutoff)} :
     plain' = [mData |-> [d EXCEPT !.sampleStorage = spectrum,
                                   !.bandStorage = bs,
                                   !.history = hist,
                                   !.counter = st.counter,
                                   !.energy = st.energy],
               calls |-> st.calls]

\* process() on a configuration with undefined behaviour: the counters are
\* decremented and the transform has run, then the call traps or goes on
\* with memory in an unspecified state
ProcessUB(spectrum, outcome) ==
  /\ phase = "ready"
  /\ Undefined(mData)
  /\ phase' = outcome
  /\ mData' = [mData EXCEPT !.counter = DecCounters(mData.counter),
                            !.sampleStorage = spectrum]
  /\ frames' = frames + 1
  /\ groups' = IF mData.bandCount = 0 THEN {}
               ELSE IF mData.sampleCount \div mData.bandCount = 0 THEN {}
               ELSE {GroupIndex(i, mData.sampleCount \div mData.bandCount) :
                       i \in 0..(mData.sampleCount - 1)}
  /\ UNCHANGED <<q, log, bandRaw, ready, counts, peaks, calls, silent,
                 means, trace, plain, confined>>

Next == \E s \in Spectra(mData.sampleCount) : Process(s) /\ UNCHANGED plain

Spec == Init /\ [][Next]_vars

\* the detector fed signed spectra
NextSigned ==
  \E s \in SignedSpectra(mData.sampleCount) : Process(s) /\ UNCHANGED plain

SpecSigned == Init /\ [][NextSigned]_vars

\* the detector and the detector without line 214, fed the same frames
NextTwin ==
  \E s \in SignedSpectra(mData.sampleCount) : Process(s) /\ PlainProcess(s)

SpecTwin == InitTwin /\ [][NextTwin]_vars

\* construction with arbitrary arguments
InitCtor == QIdle /\ DIdle

NextCtor ==
  \/ \E n \in 1..SmallFrame, b \in 0..SmallFrame, m \in 0..MaxHistory,
        u \in Uninit : Construct(n, b, m, u)
  \/ \E s \in Spectra(mData.sampleCount) : Process(s) /\ UNCHANGED plain
  \/ \E s \in Spectra(mData.sampleCount), o \in {"crashed", "corrupt"} :
        ProcessUB(s, o)

SpecCtor == InitCtor /\ [][NextCtor]_vars

\* ------------------------------------------------- claims on SampleQueue
RECURSIVE SumSeq(_, _)
SumSeq(seq, n) == IF n = 0 THEN R(0) ELSE RAdd(SumSeq(seq, n - 1), seq[n])

MinNat(a, b) == IF a < b THEN a ELSE b

C9_SampleCountIsMin ==
  /\ getSampleCount(q) = MinNat(Len(log), Len(q.mSamples))
  /\ q.mFull <=> Len(log) >= Len(q.mSamples)

C9_Witness ==
  /\ Len(q.mSamples) >= 2
  /\ Len(log) > Len(q.mSamples)
  /\ q.mFull
  /\ getSampleCount(q) = Len(q.mSamples)

Bands == 1..mData.bandCount
Fired(c, cs) == \E i \in 1..Len(cs) : cs[i][1] = c
\* number of bands whose energy satisfies the trigger predicate for class c
VoteCount(c) ==
  Cardinality({b \in Bands :
     Trigger(mData.history[b], mData.bandStorage[b], mData.threshold[c])})

\* C1 (as claimed): a class that fires during one process() call does not
\* fire during the next call.
C1_Refractory ==
  [][\A c \in Classes :
       (frames' = frames + 1 /\ Fired(c, calls)) => ~Fired(c, calls')]_vars

\* C2 (as claimed): after a process() call the energy of every band is
\* 10 x (sum of the current spectrum over the bins of the band) divided by
\* samplesPerBand, whatever the earlier frames were.
SamplesPerBand == mData.sampleCount \div mData.bandCount
RECURSIVE BinSum(_, _, _)
BinSum(ss, lo, hi) == IF lo > hi THEN R(0) ELSE RAdd(BinSum(ss, lo, hi - 1), ss[hi])
BandBinSum(b) ==
  BinSum(mData.sampleStorage, (b - 1) * SamplesPerBand + 1, b * SamplesPerBand)

C2_EnergyFromCurrentFrame ==
  (phase = "ready" /\ frames >= 1) =>
    \A b \in Bands :
      mData.bandStorage[b] =
        RDiv(RMul(R(10), BandBinSum(b)), R(SamplesPerBand))

\* C3: in every process() call a class c is called back iff its counter is
\* 0 at the firing step and the number of bands satisfying the trigger
\* predicate for c exceeds cutoff[c]/2; a class that fires has energy[c] =
\* peaks[c], counter[c] = 1, and is called back with (c, energy[c]).
C3_FireIffReadyAndVoted ==
  (phase = "ready" /\ frames >= 1) =>
    \A c \in Classes :
      /\ counts[c] = VoteCount(c)
      /\ Fired(c, calls) <=>
           (ready[c] = 0 /\ VoteCount(c) > mData.cutoff[c] \div 2)
      /\ Fired(c, calls) =>
           /\ mData.energy[c] = peaks[c]
           /\ mData.counter[c] = 1
           /\ \A i \in 1..Len(calls) :
                calls[i][1] = c => calls[i] = <<c, mData.energy[c]>>

C3_Witness ==
  /\ frames >= 2
  /\ Fired(LOW, calls) /\ ready[LOW] = 0
  /\ VoteCount(LOW) > mData.cutoff[LOW] \div 2
  /\ mData.energy[LOW] = peaks[LOW] /\ peaks[LOW] # R(0)
  /\ mData.counter[LOW] = 1
  /\ ~Fired(MID, calls) /\ VoteCount(MID) > 0

\* C4: within one process() call the callback runs at most three times, at
\* most once per class, and in ascending class order LOW, MID, HIGH.
C4_CallbackOrder ==
  /\ Len(calls) <= 3
  /\ \A i, k \in 1..Len(calls) : i < k => calls[i][1] < calls[k][1]

C4_Witness ==
  /\ Len(calls) = 3
  /\ calls[1][1] = LOW /\ calls[2][1] = MID /\ calls[3][1] = HIGH

\* C5: while every spectrum has been all zeros no class fires; and a band
\* whose rolling average is zero satisfies the trigger predicate for no
\* class, so counts[c] is at most the number of bands with non-zero average.
C5_ZeroAverageNeverVotes ==
  (phase = "ready" /\ frames >= 1) =>
    /\ silent => (calls = <<>> /\ \A c \in Classes : mData.counter[c] = 0)
    /\ \A c \in Classes :
         /\ \A b \in Bands :
              getAverage(mData.history[b]) = R(0) =>
                ~Trigger(mData.history[b], mData.bandStorage[b],
                         mData.threshold[c])
         /\ counts[c] <=
              Cardinality({b \in Bands : getAverage(mData.history[b]) # R(0)})

C5_Witness ==
  /\ frames >= 2
  /\ ~silent
  /\ \A b \in Bands :
       /\ getAverage(mData.history[b]) = R(0)
       /\ getVariance(mData.history[b]) # R(0)
       /\ RGt(mData.bandStorage[b], R(0))
  /\ \A c \in Classes : counts[c] = 0
  /\ calls = <<>>

\* C6 (as claimed): a detector is never created with bandCount = 0, with
\* sampleCount not divisible by bandCount, or with historyCount = 0.
C6_ConstructionRejects ==
  phase # "new" =>
    /\ mData.bandCount # 0
    /\ mData.historyCount # 0
    /\ mData.bandCount # 0 => mData.sampleCount % mData.bandCount = 0

\* C7 (as claimed): on every process() call the raw band sums add up to
\* 10 x the sum of the spectrum of that call.
C7_RawSumIsTenTimesSpectrum ==
  (phase = "ready" /\ frames >= 1) =>
    SumSeq(bandRaw, Len(bandRaw)) =
      RMul(R(10), SumSeq(mData.sampleStorage, Len(mData.sampleStorage)))

\* ------------------------------------------- claims on process(), part 2
\* positions of a step label in the trace of the last call
Positions(label) == {i \in 1..Len(trace) : trace[i] = label}
\* the slot of a queue written by its latest addSample
LastSlot(h) == ((h.mTotalSamples - 1) % Len(h.mSamples)) + 1

\* C11: every process() call runs decrement, one transform, collection,
\* history update, voting and then the callbacks, in that order; the window
\* of every band already holds the energy of the current frame when the
\* votes are counted.
C11_StepOrder ==
  (phase = "ready" /\ frames >= 1) =>
    /\ Len(trace) = 5 + Len(calls)
    /\ SubSeq(trace, 1, 5) =
         <<"decrement", "transform", "collect", "history", "vote">>
    /\ \A i \in 6..Len(trace) : trace[i] = "callback"
    /\ Cardinality(Positions("transform")) = 1
    /\ \A t \in Positions("transform"), k \in Positions("callback") : t < k
    /\ \A b \in Bands :
         /\ mData.history[b].mTotalSamples = frames
         /\ mData.history[b].mSamples[LastSlot(mData.history[b])] =
              mData.bandStorage[b]
    /\ \A c \in Classes : counts[c] = VoteCount(c)

C11_Witness ==
  /\ phase = "ready" /\ frames >= 2
  /\ Len(calls) >= 2
  /\ trace = <<"decrement", "transform", "collect", "history", "vote",
               "callback", "callback">>
  /\ \E b \in Bands : mData.bandStorage[b] # R(0)
  /\ \E c \in Classes : counts[c] > 0 /\ counts[c] < mData.bandCount

\* C12: the counter of every class is 0 or 1; after a process() call it is
\* 1 exactly for the classes that fired in the call; and at the firing step
\* of every call it is back to 0, whatever fired in the call before.
C12_CounterZeroOrOne ==
  phase = "ready" =>
    \A c \in Classes :
      /\ mData.counter[c] \in {0, 1}
      /\ frames >= 1 => (mData.counter[c] = 1 <=> Fired(c, calls))
      /\ ready[c] = 0

C12_Witness ==
  /\ phase = "ready" /\ frames >= 2
  /\ mData.counter[LOW] = 1 /\ Fired(LOW, calls)
  /\ mData.counter[MID] = 0 /\ ~Fired(MID, calls)
  /\ mData.energy[MID] # R(0)
  /\ ready[MID] = 0

\* C13 (as claimed): whenever 1 <= bandCount <= sampleCount, every band
\* index the collection loop writes is below bandCount, and when bandCount
\* divides sampleCount band b receives exactly the bins
\* b*samplesPerBand .. (b+1)*samplesPerBand - 1.
C13_GroupIndexInRange ==
  (phase # "new" /\ frames >= 1
     /\ 1 <= mData.bandCount /\ mData.bandCount <= mData.sampleCount) =>
    /\ \A g \in groups : g < mData.bandCount
    /\ mData.sampleCount % mData.bandCount = 0 =>
         \A b \in 0..(mData.bandCount - 1) :
           {i \in 0..(mData.sampleCount - 1) :
              GroupIndex(i, mData.sampleCount \div mData.bandCount) = b}
             = (b * (mData.sampleCount \div mData.bandCount))
                 ..((b + 1) * (mData.sampleCount \div mData.bandCount) - 1)

\* C14: the energy handed to the callback is the sum of the current band
\* energies over all bands, whether or not a band satisfied the predicate,
\* so all classes firing in one call report the same energy.
C14_EnergyIsSumOverAllBands ==
  (phase = "ready" /\ frames >= 1) =>
    /\ \A i \in 1..Len(calls) :
         calls[i][2] = SumSeq(mData.bandStorage, mData.bandCount)
    /\ \A i, k \in 1..Len(calls) : calls[i][2] = calls[k][2]

C14_Witness ==
  /\ phase = "ready" /\ frames >= 1
  /\ Len(calls) >= 2
  /\ calls[1][2] = SumSeq(mData.bandStorage, mData.bandCount)
  /\ \E b \in Bands :
       /\ mData.bandStorage[b] # R(0)
       /\ ~Trigger(mData.history[b], mData.bandStorage[b],
                   mData.threshold[calls[1][1]])

\* ---------------------------------------- claims on SampleQueue, part 2
MaxNat(a, b) == IF a > b THEN a ELSE b

RECURSIVE AbsDevSum(_, _, _)
AbsDevSum(seq, avg, lo) ==
  IF lo > Len(seq) THEN R(0)
  ELSE RAdd(RAbs(RSub(seq[lo], avg)), AbsDevSum(seq, avg, lo + 1))

C16_VarianceIsMeanAbsDeviation ==
  Len(log) >= 1 =>
    LET M == Len(q.mSamples)
        present == SubSeq(q.mSamples, 1, MinNat(Len(log), M))
        avg == RDiv(q.mTotal, R(M))
    IN /\ getVariance(q) = RDiv(AbsDevSum(present, avg, 1), R(Len(present)))
       /\ ~RGt(R(0), getVariance(q))
       /\ IsFinite(getVariance(q))

C16_Witness ==
  /\ Len(log) >= 1
  /\ Len(log) < Len(q.mSamples)
  /\ getVariance(q) # R(0)
  /\ getAverage(q) # R(0)
  /\ getVariance(q) =
       RDiv(AbsDevSum(SubSeq(q.mSamples, 1, Len(log)), getAverage(q), 1),
            R(Len(log)))

\* the part of C17 that does not depend on the input: counts[c] never
\* exceeds bandCount, a class with bandCount <= cutoff[c]/2 never fires, and
\* with 4 bands MID and HIGH never fire and LOW needs at least 3 votes
VotesBoundedByBands ==
  (phase = "ready" /\ frames >= 1) =>
    /\ \A c \in Classes :
         /\ counts[c] <= mData.bandCount
         /\ VoteCount(c) <= mData.bandCount
         /\ mData.bandCount <= mData.cutoff[c] \div 2 => ~Fired(c, calls)
    /\ mData.bandCount = 4 =>
         /\ ~Fired(MID, calls)
         /\ ~Fired(HIGH, calls)
         /\ Fired(LOW, calls) => VoteCount(LOW) >= 3

\* C17: counts[c] never exceeds bandCount, so a class with bandCount <=
\* cutoff[c]/2 never fires; with 4 bands MID and HIGH never fire, LOW fires
\* only with at least 3 votes, and a frame whose spectrum is zero outside
\* band 0 does not fire LOW.
C17_SpikeInBandZeroNeverFiresLow ==
  /\ VotesBoundedByBands
  /\ (phase = "ready" /\ frames >= 1 /\ mData.bandCount = 4 /\ confined)
       => ~Fired(LOW, calls)

\* the sizes and parameters fixed by the constructor (lines 79-98)
Config(d) ==
  [sampleCount  |-> d.sampleCount,
   bandCount    |-> d.bandCount,
   historyCount |-> d.historyCount,
   cutoff       |-> d.cutoff,
   threshold    |-> d.threshold,
   sampleLen    |-> Len(d.sampleStorage),
   bandLen      |-> Len(d.bandStorage),
   historyLen   |-> Len(d.history),
   queueLen     |-> [b \in DOMAIN d.history |-> Len(d.history[b].mSamples)]]

\* C18: a process() call leaves sampleCount, bandCount, historyCount, every
\* cutoff and threshold and the lengths of the sample, band and history
\* buffers unchanged, and leaves energy[c] unchanged for every class c that
\* does not fire in the call.
C18_ProcessKeepsConfig ==
  [][frames' = frames + 1 =>
       /\ Config(mData') = Config(mData)
       /\ \A c \in Classes :
            ~Fired(c, calls') => mData'.energy[c] = mData.energy[c]]_vars

\* after a call in which a class did not fire, that class still holds the
\* energy of an earlier firing, which differs from the peaks of this call
C18_Witness ==
  /\ phase = "ready" /\ frames >= 2
  /\ \E c \in Classes :
       /\ ~Fired(c, calls)
       /\ mData.energy[c] # R(0)
       /\ mData.energy[c] # peaks[c]
  /\ Config(mData) = Config(NewData(mData.sampleCount, mData.bandCount,
                                    mData.historyCount, R(0)))

\* C19: the detector whose voting loop has no means[] accumulation, fed the
\* same frames, makes the same callbacks (class and energy) in every call
\* and has the same counter, energy, history and bandStorage after it.
C19_MeansAccumulationIsDead ==
  phase = "ready" =>
    /\ plain.calls = calls
    /\ plain.mData.counter = mData.counter
    /\ plain.mData.energy = mData.energy
    /\ plain.mData.history = mData.history
    /\ plain.mData.bandStorage = mData.bandStorage

\* two calls made, the last one fired, and means[] was accumulated to
\* non-zero values while both detectors ran
C19_Witness ==
  /\ phase = "ready" /\ frames >= 2
  /\ plain.mData.sampleCount = mData.sampleCount
  /\ calls # <<>> /\ plain.calls = calls
  /\ \A c \in Classes : means[c] # R(0)
====
